---- MODULE Spec2Model ----
(***************************************************************************)
(* The two example clients of the /completion endpoint:                    *)
(*   examples/python/sse.py        streaming request, event dispatch loop  *)
(*   examples/python/summarize.py  blocking request, one JSON document     *)
(* A run of the model is one run of one of the two scripts.  The server    *)
(* and the transport are the environment: they choose whether the          *)
(* connection succeeds, the HTTP status, the body, and whether the stream  *)
(* is interrupted.                                                         *)
(*                                                                         *)
(* Text is modelled as sequences of lexemes.  A JSON document is           *)
(*   << "{", k1, v1, ..., kn, vn, "}" >>                                   *)
(* and a parsed object (a Python dict) is a sequence of <<key, value>>     *)
(* pairs in insertion order, a repeated key keeping its first position and *)
(* its last value.                                                         *)
(***************************************************************************)
EXTENDS Integers, Sequences, FiniteSets, TLC

\* Longest event stream the server sends in the model.
MaxEvents == 3

VARIABLES
    script,     \* which example runs: "sse" or "summarize"
    payload,    \* the request body (sse.py:13-22, summarize.py:26-33)
    pc,         \* position of the script
    attempts,   \* calls of requests.post made so far
    status,     \* HTTP status of the response, 0 before there is one
    events,     \* data fields of the events the server sends (streaming)
    body,       \* response body (non-streaming)
    pos,        \* number of events taken from client.events()
    data,       \* the script's variable `data`
    out,        \* what the script has printed, in order
    err         \* the exception that ended the script, "none" if none

vars == <<script, payload, pc, attempts, status, events, body, pos, data, out, err>>

----------------------------------------------------------------------------
\* Program constants

MODEL == "mistral-7b-instruct-v0.1.Q4_K_M.gguf"

TEMPLATE == "<s>[INST] {prompt} [/INST]"

SsePrompt == "list the planets in the solar system"

SummarizePrompt == "summarize this text to the main bullet points:"

\* Texts trafilatura.extract may hand back (None when nothing is extracted).
Texts == {"article", "None"}

SsePayload ==
    [model |-> [name |-> MODEL, ctx |-> 4096], prompt |-> <<SsePrompt>>,
     template |-> TEMPLATE, stream |-> TRUE, temperature |-> "0.6"]

SummarizePayload(text) ==
    [model |-> [name |-> MODEL, ctx |-> 8192],
     prompt |-> <<SummarizePrompt, "\n\n", text>>, template |-> TEMPLATE]

----------------------------------------------------------------------------
\* json.loads / response.json()

Braces == {"{", "}"}

\* The text is one JSON object.
WellFormed(raw) ==
    /\ Len(raw) >= 2
    /\ Len(raw) % 2 = 0
    /\ raw[1] = "{"
    /\ raw[Len(raw)] = "}"
    /\ \A i \in 2..(Len(raw) - 1) : raw[i] \notin Braces

Has(d, k) == \E i \in 1..Len(d) : d[i][1] = k

\* d[k], for a key the dict holds.
Get(d, k) == d[CHOOSE i \in 1..Len(d) : d[i][1] = k][2]

\* d[k] = v
DictSet(d, k, v) ==
    IF Has(d, k)
    THEN [i \in 1..Len(d) |-> IF d[i][1] = k THEN <<k, v>> ELSE d[i]]
    ELSE Append(d, <<k, v>>)

RECURSIVE BuildDict(_, _)
BuildDict(items, d) ==
    IF Len(items) < 2 THEN d
    ELSE BuildDict(SubSeq(items, 3, Len(items)), DictSet(d, items[1], items[2]))

\* A parser that answers an empty object for text it cannot read.
JsonLoadsLenient(raw) ==
    [ok |-> TRUE,
     val |-> IF WellFormed(raw)
             THEN BuildDict(SubSeq(raw, 2, Len(raw) - 1), <<>>)
             ELSE <<>>]

JsonLoads(raw) ==
    IF WellFormed(raw)
    THEN [ok |-> TRUE, val |-> BuildDict(SubSeq(raw, 2, Len(raw) - 1), <<>>)]
    ELSE [ok |-> FALSE, val |-> <<>>]

\* str(dict), as print(data) writes it.
RECURSIVE Flatten(_)
Flatten(d) ==
    IF d = <<>> THEN <<>> ELSE <<d[1][1], d[1][2]>> \o Flatten(Tail(d))

Repr(d) == <<"{">> \o Flatten(d) \o <<"}">>

----------------------------------------------------------------------------
\* What the server may send

TokA == <<"{", "msg_type", "token", "content", "Mercury", "}">>

TokB == <<"{", "msg_type", "token", "content", ", Venus", "}">>

SysResult ==
    <<"{", "msg_type", "system", "content", "result", "text", "Mercury, Venus", "}">>

SysWarn == <<"{", "msg_type", "system", "content", "warning: truncated", "}">>

\* A repeated key: the last value wins.
SysDup ==
    <<"{", "msg_type", "token", "content", "result", "msg_type", "system", "}">>

OtherType == <<"{", "msg_type", "error", "content", "x", "}">>

NoType == <<"{", "content", "Mercury", "}">>

Truncated == <<"{", "msg_type", "token", "content">>

EventData == {TokA, TokB, SysResult, SysWarn, SysDup, OtherType, NoType, Truncated}

RECURSIVE SeqsUpTo(_, _)
SeqsUpTo(S, n) ==
    IF n = 0 THEN {<<>>}
    ELSE LET shorter == SeqsUpTo(S, n - 1)
         IN  shorter \cup {Append(s, x) : s \in shorter, x \in S}

EventStreams == SeqsUpTo(EventData, MaxEvents)

BodyAnswer == <<"{", "text", "answer", "}">>

BodyDup == <<"{", "text", "draft", "n", "1", "text", "answer", "}">>

BodyError == <<"{", "error", "unauthorized", "}">>

BodyHtml == <<"<html>", "Unauthorized", "</html>">>

Bodies == {BodyAnswer, BodyDup, BodyError, BodyHtml}

Statuses == {200, 401, 500}

----------------------------------------------------------------------------
\* Printing

Entry(kind, val) == [kind |-> kind, val |-> val]

\* Output that lands before what was printed earlier.
EmitFront(o, kind, val) == <<Entry(kind, val)>> \o o

\* print(...): one more piece of output after all earlier ones.
Emit(o, kind, val) == Append(o, Entry(kind, val))

\* summarize.py:18-22, with the extracted text.
SetupOut(text) ==
    <<Entry("log", <<"Extracted text from url:">>), Entry("log", <<text>>),
      Entry("log", <<"Summarizing text ...">>)>>

----------------------------------------------------------------------------
Init ==
    /\ script \in {"sse", "summarize"}
    /\ \E text \in Texts :
        /\ payload = IF script = "sse" THEN SsePayload ELSE SummarizePayload(text)
        /\ out = IF script = "sse" THEN <<>> ELSE SetupOut(text)
    /\ pc = "Idle"
    /\ attempts = 0
    /\ status = 0
    /\ events = <<>>
    /\ body = <<>>
    /\ pos = 0
    /\ data = <<>>
    /\ err = "none"

\* The script stops on an uncaught exception.
Raise(e) ==
    /\ pc' = "Failed"
    /\ err' = e

\* requests.post(...) is called (sse.py:25, summarize.py:36).
Post ==
    /\ pc = "Idle"
    /\ pc' = "Connecting"
    /\ attempts' = attempts + 1
    /\ UNCHANGED <<script, payload, status, events, body, pos, data, out, err>>

\* A failed connection that is tried once more.
ConnectFailRetry ==
    /\ pc = "Connecting"
    /\ IF attempts < 2
       THEN pc' = "Idle" /\ UNCHANGED err
       ELSE Raise("ConnectionError")
    /\ UNCHANGED <<script, payload, attempts, status, events, body, pos, data, out>>

\* requests.post raises: connection refused, DNS failure, ...
ConnectFail ==
    /\ pc = "Connecting"
    /\ Raise("ConnectionError")
    /\ UNCHANGED <<script, payload, attempts, status, events, body, pos, data, out>>

\* requests.post returns a response, whatever its status: neither script
\* looks at response.status_code or calls raise_for_status().
Respond ==
    /\ pc = "Connecting"
    /\ status' \in Statuses
    /\ IF script = "sse"
       THEN /\ events' \in EventStreams
            /\ pc' = "Streaming"
            /\ UNCHANGED body
       ELSE /\ body' \in Bodies
            /\ pc' = "Responded"
            /\ UNCHANGED events
    /\ UNCHANGED <<script, payload, attempts, pos, data, out, err>>

\* A test that no event passes.
IsTokenNever(d) == FALSE

\* data["msg_type"] == "token" (sse.py:29)
IsToken(d) == Get(d, "msg_type") = "token"

\* data["msg_type"] == "system" (sse.py:31)
IsSystem(d) == Get(d, "msg_type") = "system"

\* A test that every system event passes.
IsResultAlways(d) == TRUE

\* data["content"] == "result" (sse.py:32)
IsResult(d) == Get(d, "content") = "result"

\* sse.py:29-36, the branches on the parsed event.  A key the event lacks
\* raises KeyError where it is read.
DispatchData(d) ==
    IF ~Has(d, "msg_type") THEN Raise("KeyError") /\ UNCHANGED out
    ELSE IF IsToken(d)
    THEN IF ~Has(d, "content") THEN Raise("KeyError") /\ UNCHANGED out
         ELSE /\ out' = Emit(out, "token", <<Get(d, "content")>>)
              /\ UNCHANGED <<pc, err>>
    ELSE IF IsSystem(d)
    THEN IF ~Has(d, "content") THEN Raise("KeyError") /\ UNCHANGED out
         ELSE IF IsResult(d)
         THEN /\ out' = Emit(out, "result", Repr(d))
              /\ UNCHANGED <<pc, err>>
         ELSE /\ out' = Emit(out, "system", Repr(d))
              /\ UNCHANGED <<pc, err>>
    ELSE UNCHANGED <<pc, err, out>>

\* One turn of the loop of sse.py:27-36: the next event is taken from
\* client.events(), its data parsed and dispatched.
Dispatch ==
    /\ pc = "Streaming"
    /\ pos < Len(events)
    /\ pos' = pos + 1
    /\ LET parsed == JsonLoads(events[pos + 1])
       IN  IF ~parsed.ok
           THEN /\ Raise("JSONDecodeError")
                /\ UNCHANGED <<data, out>>
           ELSE /\ data' = parsed.val
                /\ DispatchData(parsed.val)
    /\ UNCHANGED <<script, payload, attempts, status, events, body>>

\* client.events() is exhausted: the server closed the stream, the loop and
\* the script end (sse.py:27).
EndOfStream ==
    /\ pc = "Streaming"
    /\ pos = Len(events)
    /\ pc' = "Ended"
    /\ UNCHANGED <<script, payload, attempts, status, events, body, pos, data, out, err>>

\* The connection breaks while client.events() reads the body (sse.py:27).
Interrupt ==
    /\ pc = "Streaming"
    /\ Raise("ChunkedEncodingError")
    /\ UNCHANGED <<script, payload, attempts, status, events, body, pos, data, out>>

\* The prints without the raw response.
SummarizeOutTextOnly(o, d) ==
    Emit(Emit(o, "log", <<"Model response:">>), "text", <<Get(d, "text")>>)

\* summarize.py:38-41, for a response that has a "text" field.
SummarizeOut(o, d) ==
    Emit(Emit(Emit(Emit(o,
        "log", <<"Model response:">>),
        "text", <<Get(d, "text")>>),
        "log", <<"Raw response:">>),
        "result", Repr(d))

\* summarize.py:37-41.  print("Model response:") runs before data["text"]
\* is read.
ReadJson ==
    /\ pc = "Responded"
    /\ LET parsed == JsonLoads(body)
       IN  IF ~parsed.ok
           THEN /\ Raise("JSONDecodeError")
                /\ UNCHANGED <<data, out>>
           ELSE /\ data' = parsed.val
                /\ IF ~Has(parsed.val, "text")
                   THEN /\ Raise("KeyError")
                        /\ out' = Emit(out, "log", <<"Model response:">>)
                   ELSE /\ out' = SummarizeOut(out, parsed.val)
                        /\ pc' = "Ended"
                        /\ UNCHANGED err
    /\ UNCHANGED <<script, payload, attempts, status, events, body, pos>>

Next ==
    \/ Post
    \/ ConnectFail
    \/ Respond
    \/ Dispatch
    \/ EndOfStream
    \/ Interrupt
    \/ ReadJson

Spec == Init /\ [][Next]_vars

----------------------------------------------------------------------------
\* Vocabulary of the properties

\* Exceptions the design names TransportError and DecodeError.
TransportErrors == {"ConnectionError", "ChunkedEncodingError"}

DecodeErrors == {"JSONDecodeError"}

IsSuccess(s) == s \in 200..299

Parsed(raw) == BuildDict(SubSeq(raw, 2, Len(raw) - 1), <<>>)

TypeOf(raw) ==
    IF WellFormed(raw) /\ Has(Parsed(raw), "msg_type")
    THEN Get(Parsed(raw), "msg_type") ELSE "(none)"

ContentOf(raw) ==
    IF WellFormed(raw) /\ Has(Parsed(raw), "content")
    THEN Get(Parsed(raw), "content") ELSE "(none)"

HasContent(raw) == WellFormed(raw) /\ Has(Parsed(raw), "content")

TokenEv(raw) == TypeOf(raw) = "token" /\ HasContent(raw)

ResultEv(raw) == TypeOf(raw) = "system" /\ HasContent(raw) /\ ContentOf(raw) = "result"

DiagEv(raw) == TypeOf(raw) = "system" /\ HasContent(raw) /\ ContentOf(raw) # "result"

UnknownEv(raw) == WellFormed(raw) /\ TypeOf(raw) \notin {"token", "system", "(none)"}

\* What the caller is to observe for one event.
OutputOf(raw) ==
    IF TokenEv(raw) THEN <<Entry("token", <<ContentOf(raw)>>)>>
    ELSE IF ResultEv(raw) THEN <<Entry("result", Repr(Parsed(raw)))>>
    ELSE IF DiagEv(raw) THEN <<Entry("system", Repr(Parsed(raw)))>>
    ELSE <<>>

RECURSIVE Outputs(_)
Outputs(evs) ==
    IF evs = <<>> THEN <<>> ELSE OutputOf(Head(evs)) \o Outputs(Tail(evs))

OfKind(o, k) == {i \in 1..Len(o) : o[i].kind = k}

\* A result has been printed.
ResultSeen == OfKind(out, "result") # {}

\* A result event is among the events dispatched so far.
ResultDelivered == \E i \in 1..pos : ResultEv(events[i])

\* N token events, then one result event.
TokensThenResult(evs) ==
    /\ Len(evs) >= 1
    /\ ResultEv(evs[Len(evs)])
    /\ \A i \in 1..(Len(evs) - 1) : TokenEv(evs[i])

ExpectedTokensThenResult(evs) ==
    [i \in 1..Len(evs) |->
        IF i < Len(evs) THEN Entry("token", <<ContentOf(evs[i])>>)
        ELSE Entry("result", Repr(Parsed(evs[i])))]

----------------------------------------------------------------------------
\* C1: for a stream of N token events followed by one result event, the
\* caller sees the N token contents in arrival order, then the payload of
\* the result event once, and nothing else: what has been printed after k
\* events is the first k of these outputs, and when the script ends all
\* N + 1 events have been dispatched.
C1_TokensThenResult ==
    (script = "sse" /\ TokensThenResult(events)) =>
        /\ out = SubSeq(ExpectedTokensThenResult(events), 1, pos)
        /\ pc = "Ended" =>
            /\ pos = Len(events)
            /\ Cardinality(OfKind(out, "token")) = Len(events) - 1
            /\ OfKind(out, "result") = {Len(events)}

C1_Witness ==
    /\ script = "sse"
    /\ pc = "Ended"
    /\ events = <<TokA, TokB, SysResult>>
    /\ Len(out) = 3

\* C2: once a result event has been dispatched, or the script has failed,
\* no later event is processed or forwarded: the output, the number of
\* events taken and the parsed event never change again.
C2_TerminalStates ==
    [][(script = "sse" /\ (ResultDelivered \/ pc = "Failed"))
          => UNCHANGED <<out, pos, data>>]_vars

\* C3: a streaming call never ends as a silent success without a result:
\* the script ends normally only after a result event has been delivered
\* (a stream that closes before one is to fail with a TransportError).
C3_NoSilentEnd ==
    (script = "sse" /\ pc = "Ended") => ResultDelivered

\* C4: after a non-success HTTP status, or a failed connection, the call
\* fails with a TransportError and with nothing else: it never ends
\* normally, no event is taken from the body, nothing is parsed, and no
\* token, diagnostic or result is printed.
C4_ErrorStatusFails ==
    ((status # 0 /\ ~IsSuccess(status)) \/ err = "ConnectionError") =>
        /\ pc # "Ended"
        /\ pc = "Failed" => err \in TransportErrors
        /\ pos = 0
        /\ data = <<>>
        /\ \A k \in {"token", "system", "result", "text"} : OfKind(out, k) = {}

\* C5: an event that is well-formed JSON with a msg_type other than "token"
\* and "system" fails the call with a DecodeError.
C5_UnknownTypeFails ==
    (script = "sse" /\ pos >= 1 /\ UnknownEv(events[pos]))
    => (pc = "Failed" /\ err \in DecodeErrors)

\* A step that takes event number pos + 1 from the stream.
TakesEvent ==
    /\ script = "sse"
    /\ pc = "Streaming"
    /\ pos' = pos + 1

Malformed(raw) == ~WellFormed(raw)

C7_DiagnosticContinues ==
    /\ [][(TakesEvent /\ DiagEv(events[pos'])) =>
            /\ pc' = "Streaming"
            /\ err' = "none"
            /\ out' = Append(out, Entry("system", Repr(Parsed(events[pos']))))
            /\ data' = Parsed(events[pos'])]_vars
    /\ []((pc = "Streaming" /\ pos < Len(events)) => ENABLED Dispatch)

C7_Witness ==
    /\ script = "sse"
    /\ pc = "Streaming"
    /\ events = <<TokA, SysWarn, TokB>>
    /\ pos = 3
    /\ out = <<Entry("token", <<"Mercury">>), Entry("system", SysWarn),
               Entry("token", <<", Venus">>)>>

\* C8: the outputs appear in the order of the events that caused them, one
\* output per event: what has been printed after pos events is the
\* concatenation, in order, of the outputs of events 1..pos, and every step
\* takes at most one event and only adds at most one output at the end.
C8_ArrivalOrder ==
    /\ [](script = "sse" => out = Outputs(SubSeq(events, 1, pos)))
    /\ [][script = "sse" =>
            /\ pos' \in {pos, pos + 1}
            /\ Len(out') \in {Len(out), Len(out) + 1}
            /\ SubSeq(out', 1, Len(out)) = out
            /\ pos' = pos => out' = out]_vars

C8_Witness ==
    /\ script = "sse"
    /\ pc = "Ended"
    /\ events = <<SysWarn, TokB, TokA>>
    /\ out = <<Entry("system", SysWarn), Entry("token", <<", Venus">>),
               Entry("token", <<"Mercury">>)>>

\* C9: a non-streaming request (no stream flag in the payload) that the
\* server answers with a success status and a JSON body holding "text" ends
\* normally with exactly one result, the parsed body, and no token or
\* diagnostic output.
C9_SingleResult ==
    (/\ script = "summarize"
     /\ "stream" \notin DOMAIN payload
     /\ pc \in {"Ended", "Failed"}
     /\ IsSuccess(status)
     /\ WellFormed(body)
     /\ Has(Parsed(body), "text"))
    => /\ pc = "Ended"
       /\ err = "none"
       /\ data = Parsed(body)
       /\ Cardinality(OfKind(out, "result")) = 1
       /\ out[Len(out)] = Entry("result", Repr(Parsed(body)))
       /\ OfKind(out, "token") = {}
       /\ OfKind(out, "system") = {}
       /\ pos = 0

C9_Witness ==
    /\ script = "summarize"
    /\ pc = "Ended"
    /\ status = 200
    /\ body = BodyDup
    /\ data = <<<<"text", "answer">>, <<"n", "1">>>>

\* C10: one run makes exactly one connection attempt: none before the
\* request is sent, one from then on, whatever the outcome.
C10_OneAttempt ==
    /\ attempts <= 1
    /\ pc = "Idle" => attempts = 0
    /\ pc # "Idle" => attempts = 1

C10_Witness ==
    /\ pc = "Failed"
    /\ err = "ConnectionError"
    /\ attempts = 1

====
